---- MODULE Spec2Model ----
(***************************************************************************)
(* Model of clickstream_preprocess.py: one pass over a clickstream dump    *)
(* that builds the TrieHH client list, the SFP client list and the word    *)
(* frequency table, with optional per-token capping (reservoir_extend).    *)
(*                                                                         *)
(* Strings that the program slices or extends (tokens and their encodings) *)
(* are sequences of one-character strings; the count field of a row is a   *)
(* string that int() has to parse.                                         *)
(***************************************************************************)
EXTENDS Integers, Sequences, FiniteSets, TLC

\* ---------------------------------------------------------------- bounds
\* Rows the reader yields at most before the end of the file.
MaxRows == 3
\* Largest count field a row carries.
MaxCount == 2
\* Largest configured cap.
MaxCap == 2
\* Largest configured max_len.
MaxWidth == 2
\* Longest string handed to the encoders on their own.
MaxStrLen == 3

\* ---------------------------------------------------------------- inputs
\* The `curr` field of a row: a one-character page title and a longer one.
Tokens == { <<"A">>, <<"B", "o", "b">> }

\* The `type` field of a row.
Kinds == { "link", "other" }

\* Decimal literals int() accepts, by value (index - 1).
Digits == << "0", "1", "2", "3", "4", "5", "6", "7", "8", "9" >>

\* The count field of a row: a decimal literal, or text int() rejects.
CountFields == { Digits[n + 1] : n \in 0..MaxCount } \cup { "x" }

\* Rows csv.reader yields: well-formed 4-field rows and a 3-field row.
Rows ==
  { <<"X", t, ty, c>> : t \in Tokens, ty \in Kinds, c \in CountFields }
    \cup { <<"X", <<"A">>, "link">> }

\* Values of --cap: negative, 0 (falsy: capping off), positive.
CapValues == { 0 - 1 } \cup (0..MaxCap)

\* Values of keep_type: a kind, or "" (falsy: no filter).
KeepTypes == { "link", "" }

\* rng.random() returns a float in [0, 1): the grid n / DrawDenom, n < DrawDenom.
DrawDenom == MaxCap + 1
Draws == 0..(DrawDenom - 1)

\* Characters of a string handed to the encoders, the terminator among them.
Chars == { "a", "b", "$" }

\* Strings handed to the encoders on their own.
Strings == UNION { [ 1..n -> Chars ] : n \in 0..MaxStrLen }

\* The three output files.
Artifacts == { "clients_triehh.txt", "clients_sfp.txt", "word_frequencies.txt" }

VARIABLES
  cap,             \* preprocess(cap=...)
  keep_type,       \* preprocess(keep_type=...)
  max_len,         \* preprocess(max_len=...)
  freq,            \* collections.Counter: a function on the keys it holds
  clients_triehh,  \* list of terminator-suffixed tokens
  clients_sfp,     \* list of fixed-width tokens
  pc,              \* position in preprocess
  i,               \* enumerate(reader, 1): rows read so far
  row,             \* the row being processed (<<>> before the first)
  cnt,             \* the local cnt after int() and the clamp
  todo,            \* iterations of `for _ in range(cnt)` still to run
  rel_freq,        \* token -> <<numerator, denominator>> of c / total_clients
  written,         \* output files written so far
  err,             \* the exception that ended the run, "" if none
  cum,             \* history: token -> sum of the counts of its surviving rows
  cumc,            \* history: token -> sum of min(count, cap) of its surviving rows
  draws,           \* rng.random() calls made by the latest reservoir_extend call
  clamp_on         \* TRUE: lines 56-57 as written; FALSE: the pass without them

vars == << cap, keep_type, max_len, freq, clients_triehh, clients_sfp, pc, i,
           row, cnt, todo, rel_freq, written, err, cum, cumc, draws, clamp_on >>

\* ---------------------------------------------------------------- helpers
Min(a, b) == IF a < b THEN a ELSE b

\* min(count, k) for a cap k >= 1; the count itself without such a cap.
MinCount(c, k) == IF k >= 1 THEN Min(c, k) ELSE c

\* [x] * (n - 1): one copy short.
Copies_short(x, n) == [ j \in 1..(n - 1) |-> x ]

\* [x] * n for a list: n copies, none when n <= 0.
Copies(x, n) == [ j \in 1..n |-> x ]

\* s[:L] for L >= 0.
Prefix(s, L) == SubSeq(s, 1, Min(Len(s), L))

\* str.ljust(L, '$').
ljust(s, L) == IF Len(s) >= L THEN s ELSE s \o Copies("$", L - Len(s))

\* Line 23 without .ljust: short tokens are not padded.
truncate_or_pad_nopad(s, L) == Prefix(s, L)

truncate_or_pad(s, L) == ljust(Prefix(s, L), L)

add_end_symbol(s) == s \o << "$" >>

\* Counter.__getitem__: 0 for a missing key, which it does not insert.
CounterGet(c, e) == IF e \in DOMAIN c THEN c[e] ELSE 0

\* Counter.__setitem__: inserts the key.
CounterSet(c, e, v) == [ x \in (DOMAIN c) \cup { e } |-> IF x = e THEN v ELSE c[x] ]

\* int(cnt): defined on decimal literals only.
IsIntLiteral(s) == \E n \in 0..9 : Digits[n + 1] = s
int(s) == CHOOSE n \in 0..9 : Digits[n + 1] = s

\* Line 30 with > for >=: the loop is entered one occurrence late.
AtCap_strict(c, e, k) == CounterGet(c, e) > k

\* Line 30 with k - 1 for k: the loop is entered one occurrence early.
AtCap_early(c, e, k) == CounterGet(c, e) >= k - 1

\* Line 30: the loop condition container[elem] >= k.
AtCap(c, e, k) == CounterGet(c, e) >= k

\* Lines 56-57 left out: the count is used unclamped.
Clamp_none(c, k) == c

\* Lines 56-57: if cap and cnt > cap: cnt = cap.
Clamp(c, k) == IF k # 0 /\ c > k THEN k ELSE c

\* len(range(n)).
RangeLen(n) == IF n > 0 THEN n ELSE 0

\* Line 32: rng.random() < k / (k + 1), for the draw u / DrawDenom and k >= 1.
DrawRejects(u, k) == u * (k + 1) < k * DrawDenom

\* Lines 50 and 53: the row filter.
Malformed(r) == Len(r) # 4
WrongKind(r) == keep_type # "" /\ r[3] # keep_type
Survives(r) == ~Malformed(r) /\ ~WrongKind(r)

RECURSIVE SumOver(_, _)
SumOver(f, S) ==
  IF S = {} THEN 0
  ELSE LET x == CHOOSE y \in S : TRUE IN f[x] + SumOver(f, S \ { x })

\* sum(freq.values()).
CounterTotal(c) == SumOver(c, DOMAIN c)

\* ---------------------------------------------------------------- Init
Init ==
  /\ cap \in CapValues
  /\ keep_type \in KeepTypes
  /\ max_len \in 1..MaxWidth
  /\ freq = << >>
  /\ clients_triehh = << >>
  /\ clients_sfp = << >>
  /\ pc = "read"
  /\ i = 0
  /\ row = << >>
  /\ cnt = 0
  /\ todo = 0
  /\ rel_freq = << >>
  /\ written = {}
  /\ err = ""
  /\ cum = [ t \in Tokens |-> 0 ]
  /\ cumc = [ t \in Tokens |-> 0 ]
  /\ draws = 0
  /\ clamp_on = TRUE

\* ---------------------------------------------------------------- the pass
\* Lines 50-51: a row without four fields is skipped.
SkipMalformed ==
  /\ pc = "read" /\ i < MaxRows
  /\ \E r \in Rows :
       /\ Malformed(r)
       /\ row' = r
  /\ i' = i + 1
  /\ UNCHANGED << cap, keep_type, max_len, freq, clients_triehh, clients_sfp,
                  pc, cnt, todo, rel_freq, written, err, cum,
                  cumc, draws, clamp_on >>

\* Lines 53-54: a row of another type is skipped.
SkipKind ==
  /\ pc = "read" /\ i < MaxRows
  /\ \E r \in Rows :
       /\ ~Malformed(r) /\ WrongKind(r)
       /\ row' = r
  /\ i' = i + 1
  /\ UNCHANGED << cap, keep_type, max_len, freq, clients_triehh, clients_sfp,
                  pc, cnt, todo, rel_freq, written, err, cum,
                  cumc, draws, clamp_on >>

\* Line 55: int(cnt) raises ValueError; nothing catches it.
BadCount ==
  /\ pc = "read" /\ i < MaxRows
  /\ \E r \in Rows :
       /\ Survives(r) /\ ~IsIntLiteral(r[4])
       /\ row' = r
  /\ i' = i + 1
  /\ pc' = "error"
  /\ err' = "ValueError"
  /\ UNCHANGED << cap, keep_type, max_len, freq, clients_triehh, clients_sfp,
                  cnt, todo, rel_freq, written, cum,
                  cumc, draws, clamp_on >>

\* Lines 55-61: a surviving row with capping on enters the sampling loop.
RowCapped ==
  /\ pc = "read" /\ i < MaxRows
  /\ cap # 0
  /\ \E r \in Rows :
       /\ Survives(r) /\ IsIntLiteral(r[4])
       /\ row' = r
       /\ cnt' = Clamp(int(r[4]), cap)
       /\ todo' = RangeLen(Clamp(int(r[4]), cap))
       /\ cum' = [ cum EXCEPT ![r[2]] = @ + int(r[4]) ]
       /\ cumc' = [ cumc EXCEPT ![r[2]] = @ + MinCount(int(r[4]), cap) ]
  /\ i' = i + 1
  /\ pc' = "occ"
  /\ UNCHANGED << cap, keep_type, max_len, freq, clients_triehh, clients_sfp,
                  rel_freq, written, err,
                  draws, clamp_on >>

\* Lines 55-57, 65-68: a surviving row with capping off is expanded at once.
RowUncapped ==
  /\ pc = "read" /\ i < MaxRows
  /\ cap = 0
  /\ \E r \in Rows :
       /\ Survives(r) /\ IsIntLiteral(r[4])
       /\ row' = r
       /\ cnt' = Clamp(int(r[4]), cap)
       /\ freq' = CounterSet(freq, r[2], CounterGet(freq, r[2]) + Clamp(int(r[4]), cap))
       /\ clients_triehh' =
            clients_triehh \o Copies(add_end_symbol(r[2]), Clamp(int(r[4]), cap))
       /\ clients_sfp' =
            clients_sfp \o Copies(truncate_or_pad(r[2], max_len), Clamp(int(r[4]), cap))
       /\ cum' = [ cum EXCEPT ![r[2]] = @ + int(r[4]) ]
       /\ cumc' = [ cumc EXCEPT ![r[2]] = @ + MinCount(int(r[4]), cap) ]
  /\ i' = i + 1
  /\ UNCHANGED << cap, keep_type, max_len, pc, todo, rel_freq, written, err,
                  draws, clamp_on >>

\* Line 61: the for loop over range(cnt) calls reservoir_extend.
NextOccurrence ==
  /\ pc = "occ" /\ todo > 0
  /\ pc' = "while"
  /\ draws' = 0
  /\ UNCHANGED << cap, keep_type, max_len, freq, clients_triehh, clients_sfp,
                  i, row, cnt, todo, rel_freq, written, err, cum,
                  cumc, clamp_on >>

\* Line 61: range(cnt) is exhausted; on to the next row.
RowDone ==
  /\ pc = "occ" /\ todo = 0
  /\ pc' = "read"
  /\ UNCHANGED << cap, keep_type, max_len, freq, clients_triehh, clients_sfp,
                  i, row, cnt, todo, rel_freq, written, err, cum,
                  cumc, draws, clamp_on >>

\* Line 34 moved before line 32: the counter is decremented, then the draw rejects.
ReservoirReject_decfirst ==
  /\ pc = "while"
  /\ AtCap(freq, row[2], cap)
  /\ \E u \in Draws : DrawRejects(u, cap)
  /\ todo' = todo - 1
  /\ draws' = draws + 1
  /\ pc' = "occ"
  /\ freq' = CounterSet(freq, row[2], CounterGet(freq, row[2]) - 1)
  /\ UNCHANGED << cap, keep_type, max_len, clients_triehh, clients_sfp,
                  i, row, cnt, rel_freq, written, err, cum,
                  cumc, clamp_on >>

\* Lines 30-33: at the cap, the draw is below k/(k+1): return False.
ReservoirReject ==
  /\ pc = "while"
  /\ AtCap(freq, row[2], cap)
  /\ \E u \in Draws : DrawRejects(u, cap)
  /\ todo' = todo - 1
  /\ draws' = draws + 1
  /\ pc' = "occ"
  /\ UNCHANGED << cap, keep_type, max_len, freq, clients_triehh, clients_sfp,
                  i, row, cnt, rel_freq, written, err, cum,
                  cumc, clamp_on >>

\* Line 34 left out: the loop draws again with the counter still at the cap.
ReservoirDecrement_nodec ==
  /\ pc = "while"
  /\ AtCap(freq, row[2], cap)
  /\ \E u \in Draws : ~DrawRejects(u, cap)
  /\ draws' = draws + 1
  /\ UNCHANGED << cap, keep_type, max_len, freq, clients_triehh, clients_sfp, pc,
                  i, row, cnt, todo, rel_freq, written, err, cum,
                  cumc, clamp_on >>

\* Lines 30-34: at the cap, the draw is not below k/(k+1): decrement, loop.
ReservoirDecrement ==
  /\ pc = "while"
  /\ AtCap(freq, row[2], cap)
  /\ \E u \in Draws : ~DrawRejects(u, cap)
  /\ freq' = CounterSet(freq, row[2], CounterGet(freq, row[2]) - 1)
  /\ draws' = draws + 1
  /\ UNCHANGED << cap, keep_type, max_len, clients_triehh, clients_sfp, pc,
                  i, row, cnt, todo, rel_freq, written, err, cum,
                  cumc, clamp_on >>

\* Line 64 with prev for curr: the SFP list gets the other field of the row.
ReservoirAccept_prev ==
  /\ pc = "while"
  /\ ~AtCap(freq, row[2], cap)
  /\ freq' = CounterSet(freq, row[2], CounterGet(freq, row[2]) + 1)
  /\ clients_triehh' = Append(clients_triehh, add_end_symbol(row[2]))
  /\ clients_sfp' = Append(clients_sfp, truncate_or_pad(<< row[1] >>, max_len))
  /\ todo' = todo - 1
  /\ pc' = "occ"
  /\ UNCHANGED << cap, keep_type, max_len, i, row, cnt, rel_freq, written,
                  err, cum,
                  cumc, draws, clamp_on >>

\* Line 35 skipped after a decrement: the replaced copy is not counted again.
ReservoirAccept_noincr ==
  /\ pc = "while"
  /\ ~AtCap(freq, row[2], cap)
  /\ freq' = CounterSet(freq, row[2], CounterGet(freq, row[2]) + (IF draws = 0 THEN 1 ELSE 0))
  /\ clients_triehh' = Append(clients_triehh, add_end_symbol(row[2]))
  /\ clients_sfp' = Append(clients_sfp, truncate_or_pad(row[2], max_len))
  /\ todo' = todo - 1
  /\ pc' = "occ"
  /\ UNCHANGED << cap, keep_type, max_len, i, row, cnt, rel_freq, written,
                  err, cum,
                  cumc, draws, clamp_on >>

\* Lines 63-64 as classical reservoir sampling: after a decrement the oldest entry is dropped.
ReservoirAccept_replace ==
  /\ pc = "while"
  /\ ~AtCap(freq, row[2], cap)
  /\ freq' = CounterSet(freq, row[2], CounterGet(freq, row[2]) + 1)
  /\ clients_triehh' = Append(IF draws = 0 THEN clients_triehh ELSE Tail(clients_triehh), add_end_symbol(row[2]))
  /\ clients_sfp' = Append(IF draws = 0 THEN clients_sfp ELSE Tail(clients_sfp), truncate_or_pad(row[2], max_len))
  /\ todo' = todo - 1
  /\ pc' = "occ"
  /\ UNCHANGED << cap, keep_type, max_len, i, row, cnt, rel_freq, written,
                  err, cum,
                  cumc, draws, clamp_on >>

\* Lines 35-36 and 62-64: below the cap: increment, return True, append.
ReservoirAccept ==
  /\ pc = "while"
  /\ ~AtCap(freq, row[2], cap)
  /\ freq' = CounterSet(freq, row[2], CounterGet(freq, row[2]) + 1)
  /\ clients_triehh' = Append(clients_triehh, add_end_symbol(row[2]))
  /\ clients_sfp' = Append(clients_sfp, truncate_or_pad(row[2], max_len))
  /\ todo' = todo - 1
  /\ pc' = "occ"
  /\ UNCHANGED << cap, keep_type, max_len, i, row, cnt, rel_freq, written,
                  err, cum,
                  cumc, draws, clamp_on >>

\* Line 47: the reader is exhausted.
EndOfInput ==
  /\ pc = "read"
  /\ pc' = "finish"
  /\ UNCHANGED << cap, keep_type, max_len, freq, clients_triehh, clients_sfp,
                  i, row, cnt, todo, rel_freq, written, err, cum,
                  cumc, draws, clamp_on >>

\* Line 71 with len(freq) for total_clients.
Normalize_unique ==
  /\ pc = "finish"
  /\ (DOMAIN freq = {} \/ Len(clients_triehh) # 0)
  /\ rel_freq' = [ w \in DOMAIN freq |-> << freq[w], Cardinality(DOMAIN freq) >> ]
  /\ pc' = "write_triehh"
  /\ UNCHANGED << cap, keep_type, max_len, freq, clients_triehh, clients_sfp,
                  i, row, cnt, todo, written, err, cum,
                  cumc, draws, clamp_on >>

\* Lines 70-71: the division is evaluated once per key of freq.
Normalize ==
  /\ pc = "finish"
  /\ (DOMAIN freq = {} \/ Len(clients_triehh) # 0)
  /\ rel_freq' = [ w \in DOMAIN freq |-> << freq[w], Len(clients_triehh) >> ]
  /\ pc' = "write_triehh"
  /\ UNCHANGED << cap, keep_type, max_len, freq, clients_triehh, clients_sfp,
                  i, row, cnt, todo, written, err, cum,
                  cumc, draws, clamp_on >>

\* Lines 76-77 moved before line 71: the first file is written, then c / 0 raises.
NormalizeZeroDivision_late ==
  /\ pc = "finish"
  /\ DOMAIN freq # {} /\ Len(clients_triehh) = 0
  /\ written' = written \cup { "clients_triehh.txt" }
  /\ pc' = "error"
  /\ err' = "ZeroDivisionError"
  /\ UNCHANGED << cap, keep_type, max_len, freq, clients_triehh, clients_sfp,
                  i, row, cnt, todo, rel_freq, cum,
                  cumc, draws, clamp_on >>

\* Line 71: c / 0 raises ZeroDivisionError.
NormalizeZeroDivision ==
  /\ pc = "finish"
  /\ DOMAIN freq # {} /\ Len(clients_triehh) = 0
  /\ pc' = "error"
  /\ err' = "ZeroDivisionError"
  /\ UNCHANGED << cap, keep_type, max_len, freq, clients_triehh, clients_sfp,
                  i, row, cnt, todo, rel_freq, written, cum,
                  cumc, draws, clamp_on >>

\* Lines 76-77.
WriteTriehh ==
  /\ pc = "write_triehh"
  /\ written' = written \cup { "clients_triehh.txt" }
  /\ pc' = "write_sfp"
  /\ UNCHANGED << cap, keep_type, max_len, freq, clients_triehh, clients_sfp,
                  i, row, cnt, todo, rel_freq, err, cum,
                  cumc, draws, clamp_on >>

\* Lines 79-80.
WriteSfp ==
  /\ pc = "write_sfp"
  /\ written' = written \cup { "clients_sfp.txt" }
  /\ pc' = "write_freq"
  /\ UNCHANGED << cap, keep_type, max_len, freq, clients_triehh, clients_sfp,
                  i, row, cnt, todo, rel_freq, err, cum,
                  cumc, draws, clamp_on >>

\* Lines 82-83.
WriteFreq ==
  /\ pc = "write_freq"
  /\ written' = written \cup { "word_frequencies.txt" }
  /\ pc' = "done"
  /\ UNCHANGED << cap, keep_type, max_len, freq, clients_triehh, clients_sfp,
                  i, row, cnt, todo, rel_freq, err, cum,
                  cumc, draws, clamp_on >>

Next ==
  \/ SkipMalformed
  \/ SkipKind
  \/ BadCount
  \/ RowCapped
  \/ RowUncapped
  \/ NextOccurrence
  \/ RowDone
  \/ ReservoirReject
  \/ ReservoirDecrement
  \/ ReservoirAccept
  \/ EndOfInput
  \/ Normalize
  \/ NormalizeZeroDivision
  \/ WriteTriehh
  \/ WriteSfp
  \/ WriteFreq

Spec == Init /\ [][Next]_vars

\* ---------------------------------------------------------------- the encoders alone
\* add_end_symbol and truncate_or_pad applied to an arbitrary string s (held
\* in the curr field of row) and width max_len.
InitEnc ==
  /\ cap = 0
  /\ keep_type = "link"
  /\ max_len \in 1..MaxWidth
  /\ freq = << >>
  /\ clients_triehh = << >>
  /\ clients_sfp = << >>
  /\ pc = "encode"
  /\ i = 0
  /\ \E s \in Strings : row = << "X", s, "link", "1" >>
  /\ cnt = 0
  /\ todo = 0
  /\ rel_freq = << >>
  /\ written = {}
  /\ err = ""
  /\ cum = [ t \in Tokens |-> 0 ]
  /\ cumc = [ t \in Tokens |-> 0 ]
  /\ draws = 0
  /\ clamp_on = TRUE

\* Lines 25-26.
EncodeA ==
  /\ pc = "encode" /\ clients_triehh = << >>
  /\ clients_triehh' = << add_end_symbol(row[2]) >>
  /\ UNCHANGED << cap, keep_type, max_len, freq, clients_sfp, pc, i, row, cnt,
                  todo, rel_freq, written, err, cum, cumc, draws, clamp_on >>

\* Lines 22-23.
EncodeB ==
  /\ pc = "encode" /\ clients_sfp = << >>
  /\ clients_sfp' = << truncate_or_pad(row[2], max_len) >>
  /\ UNCHANGED << cap, keep_type, max_len, freq, clients_triehh, pc, i, row, cnt,
                  todo, rel_freq, written, err, cum, cumc, draws, clamp_on >>

NextEnc ==
  \/ EncodeA
  \/ EncodeB

SpecEnc == InitEnc /\ [][NextEnc]_vars

\* ---------------------------------------------------------------- the pass without the clamp
\* The pass with a cap k >= 1, either as written (clamp_on) or with lines
\* 56-57 left out, so that a row makes as many decisions as its count.
InitNC ==
  /\ cap \in 1..MaxCap
  /\ keep_type \in KeepTypes
  /\ max_len \in 1..MaxWidth
  /\ freq = << >>
  /\ clients_triehh = << >>
  /\ clients_sfp = << >>
  /\ pc = "read"
  /\ i = 0
  /\ row = << >>
  /\ cnt = 0
  /\ todo = 0
  /\ rel_freq = << >>
  /\ written = {}
  /\ err = ""
  /\ cum = [ t \in Tokens |-> 0 ]
  /\ cumc = [ t \in Tokens |-> 0 ]
  /\ draws = 0
  /\ clamp_on \in BOOLEAN

\* Lines 55, 60-61 without lines 56-57: range(cnt) runs over the raw count.
RowCappedUnclamped ==
  /\ pc = "read" /\ i < MaxRows
  /\ cap # 0
  /\ \E r \in Rows :
       /\ Survives(r) /\ IsIntLiteral(r[4])
       /\ row' = r
       /\ cnt' = int(r[4])
       /\ todo' = RangeLen(int(r[4]))
       /\ cum' = [ cum EXCEPT ![r[2]] = @ + int(r[4]) ]
       /\ cumc' = [ cumc EXCEPT ![r[2]] = @ + MinCount(int(r[4]), cap) ]
  /\ i' = i + 1
  /\ pc' = "occ"
  /\ UNCHANGED << cap, keep_type, max_len, freq, clients_triehh, clients_sfp,
                  rel_freq, written, err, draws, clamp_on >>

NextNC ==
  \/ (clamp_on /\ RowCapped)
  \/ (~clamp_on /\ RowCappedUnclamped)
  \/ SkipMalformed
  \/ SkipKind
  \/ BadCount
  \/ NextOccurrence
  \/ RowDone
  \/ ReservoirReject
  \/ ReservoirDecrement
  \/ ReservoirAccept
  \/ EndOfInput
  \/ Normalize
  \/ WriteTriehh
  \/ WriteSfp
  \/ WriteFreq

SpecNC == InitNC /\ [][NextNC]_vars

\* ---------------------------------------------------------------- properties
\* The pass is over: the reader was exhausted and line 70 has been reached.
PassOver == pc \in { "finish", "write_triehh", "write_sfp", "write_freq", "done" }

\* The run got past line 71 and is writing, or has written, the files.
Writing == pc \in { "write_triehh", "write_sfp", "write_freq", "done" }

\* The state is between two occurrence decisions, not inside reservoir_extend.
BetweenDecisions == pc # "while"

\* The row read by the step just taken, if the step read one.
ReadsRow == pc = "read" /\ i' = i + 1

\* A string with its last character removed.
StripEnd(s) == SubSeq(s, 1, Len(s) - 1)

\* s is t cut to L characters, or t followed by '$' up to L characters.
IsFixedWidth(s, t, L) ==
  /\ Len(s) = L
  /\ \A j \in 1..L : s[j] = IF j <= Len(t) THEN t[j] ELSE "$"

\* C1: between occurrence decisions and after the pass, both client lists
\* have the same length and that length equals the sum of the counters.
C1_LengthsEqualCounterSum ==
  BetweenDecisions =>
    /\ Len(clients_triehh) = Len(clients_sfp)
    /\ Len(clients_triehh) = CounterTotal(freq)

\* C2: with capping on, no counter the table holds exceeds the cap, in every
\* reachable state of the pass and after it.
C2_CounterAtMostCap ==
  cap # 0 => \A t \in DOMAIN freq : freq[t] <= cap

\* C2 witness: a token sits at the cap although more than cap of its
\* occurrences were accepted (a draw let one through at the cap).
C2_Witness ==
  /\ cap >= 1
  /\ pc = "occ"
  /\ \E t \in DOMAIN freq : freq[t] = cap
  /\ Len(clients_triehh) > CounterTotal(freq)

\* C3: when the run completes with at least one client, the frequency table
\* sums to 1: every entry has the number of clients as denominator and the
\* numerators add up to it.
C3_FrequenciesSumToOne ==
  (pc = "done" /\ Len(clients_triehh) > 0) =>
    /\ \A w \in DOMAIN rel_freq : rel_freq[w][2] = Len(clients_triehh)
    /\ SumOver([ w \in DOMAIN rel_freq |-> rel_freq[w][1] ], DOMAIN rel_freq)
         = Len(clients_triehh)

\* C4: with capping off, the step that reads a surviving row with count c
\* appends exactly c copies of the token's two encodings and adds c to its
\* counter; so after the pass each counter is the token's cumulative count.
C4_UncappedStep ==
  (cap = 0 /\ ReadsRow /\ Survives(row') /\ IsIntLiteral(row'[4])) =>
    LET t == row'[2]
        c == int(row'[4])
    IN /\ Len(clients_triehh') = Len(clients_triehh) + c
       /\ Len(clients_sfp') = Len(clients_sfp) + c
       /\ \A j \in 1..Len(clients_triehh) : clients_triehh'[j] = clients_triehh[j]
       /\ \A j \in 1..Len(clients_sfp) : clients_sfp'[j] = clients_sfp[j]
       /\ \A j \in 1..c :
            /\ clients_triehh'[Len(clients_triehh) + j] = t \o << "$" >>
            /\ IsFixedWidth(clients_sfp'[Len(clients_sfp) + j], t, max_len)
       /\ CounterGet(freq', t) = CounterGet(freq, t) + c
       /\ \A o \in Tokens \ { t } : CounterGet(freq', o) = CounterGet(freq, o)

C4_UncappedFinal ==
  (cap = 0 /\ PassOver) => \A t \in Tokens : CounterGet(freq, t) = cum[t]

C4_UncappedExact == [][C4_UncappedStep]_vars /\ []C4_UncappedFinal

\* C4 witness: capping off, rows (A, 2) and (Bob, 1) give 3 clients and the
\* frequencies 2/3 and 1/3.
C4_Witness ==
  /\ cap = 0 /\ pc = "done"
  /\ cum[<<"A">>] = 2 /\ cum[<<"B", "o", "b">>] = 1
  /\ Len(clients_triehh) = 3
  /\ rel_freq[<<"A">>] = << 2, 3 >>
  /\ rel_freq[<<"B", "o", "b">>] = << 1, 3 >>

\* C5: in every reachable state the two lists have the same length and, at
\* every index, the SFP entry is the fixed-width encoding of the token whose
\* terminator-suffixed encoding is the TrieHH entry.
C5_Aligned ==
  /\ Len(clients_triehh) = Len(clients_sfp)
  /\ \A j \in 1..Len(clients_triehh) :
       /\ Len(clients_triehh[j]) >= 1
       /\ clients_triehh[j][Len(clients_triehh[j])] = "$"
       /\ StripEnd(clients_triehh[j]) \in Tokens
       /\ IsFixedWidth(clients_sfp[j], StripEnd(clients_triehh[j]), max_len)

\* C5 witness: capping on, both tokens emitted, one padded and one truncated.
C5_Witness ==
  /\ cap >= 1 /\ max_len = 2
  /\ \E j, l \in 1..Len(clients_sfp) :
       /\ clients_triehh[j] = << "A", "$" >> /\ clients_sfp[j] = << "A", "$" >>
       /\ clients_triehh[l] = << "B", "o", "b", "$" >> /\ clients_sfp[l] = << "B", "o" >>

\* C6: a step that reads a row without 4 fields or of another kind changes
\* neither the counter nor the lists and leaves the pass running; with a cap
\* k >= 1, a surviving row with count c starts with at most min(c, k)
\* decisions to make, every decision uses one of them up, and the lists grow
\* by at most one element per decision.
C6_RowStep ==
  /\ (ReadsRow /\ ~Survives(row')) =>
       /\ freq' = freq
       /\ clients_triehh' = clients_triehh
       /\ clients_sfp' = clients_sfp
       /\ pc' = "read"
       /\ err' = ""
  /\ (cap >= 1 /\ ReadsRow /\ Survives(row') /\ IsIntLiteral(row'[4])) =>
       /\ todo' <= Min(int(row'[4]), cap)
       /\ freq' = freq
       /\ clients_triehh' = clients_triehh
       /\ clients_sfp' = clients_sfp
  /\ (cap >= 1 /\ pc \in { "occ", "while" }) =>
       /\ todo' >= 0
       /\ Len(clients_triehh') + todo' <= Len(clients_triehh) + todo
       /\ Len(clients_sfp') + todo' <= Len(clients_sfp) + todo
       /\ row' = row
  /\ (pc = "occ" /\ pc' = "while") => todo > 0
  /\ (pc = "while" /\ pc' = "occ") => todo' = todo - 1

C6_RowFilter == [][C6_RowStep]_vars

\* C6 witness: a surviving row with a count above the cap was thinned to cap
\* clients, and the malformed row read after it changed nothing.
C6_Witness ==
  /\ cap >= 1 /\ pc = "read" /\ i = 2
  /\ Malformed(row)
  /\ \E t \in Tokens : cum[t] > cap /\ CounterGet(freq, t) = cap
  /\ Len(clients_triehh) = cap

\* C7: a pass that accepted no occurrence never reaches the writes and never
\* ends in a division by zero.
C7_ZeroEmittedIsFatal ==
  /\ Writing => Len(clients_triehh) > 0
  /\ err # "ZeroDivisionError"

\* C8: with a cap <= 0 configured, no row is read and no file is written.
C8_NonPositiveCapFailsFast ==
  cap <= 0 => (i = 0 /\ written = {} /\ ~PassOver)

\* C10: a file is written only after the reader was exhausted, and a run
\* that ended in an exception has written no file.
C10_WritesAfterPass ==
  /\ written # {} => Writing
  /\ err # "" => written = {}

\* C10 witness: the run aborted on a count field that is no integer, after
\* clients had been collected, and no file exists.
C10_Witness ==
  /\ pc = "error" /\ err = "ValueError"
  /\ Len(clients_triehh) > 0
  /\ written = {}

\* Number of entries of a list equal to x.
EntriesOf(list, x) == Cardinality({ j \in 1..Len(list) : list[j] = x })

\* t cut to L characters, or t followed by '$' up to L characters.
FixedWidthOf(t, L) == [ j \in 1..L |-> IF j <= Len(t) THEN t[j] ELSE "$" ]

\* The token the reservoir_extend call in progress is about.
CurrentToken == row[2]

\* C11: once the table is computed, every entry is counter / number of
\* clients with 0 <= counter <= number of clients, so it lies in [0, 1].
C11_FrequenciesInUnitInterval ==
  /\ PassOver =>
       \A t \in Tokens :
         0 <= CounterGet(freq, t) /\ CounterGet(freq, t) <= Len(clients_triehh)
  /\ Writing =>
       /\ DOMAIN rel_freq = DOMAIN freq
       /\ \A w \in DOMAIN rel_freq :
            /\ rel_freq[w][1] = freq[w]
            /\ rel_freq[w][2] = Len(clients_triehh)
            /\ 0 <= rel_freq[w][1]
            /\ rel_freq[w][1] <= rel_freq[w][2]
            /\ rel_freq[w][2] > 0

\* C11 witness: both tokens are in the written table, one of them with a
\* frequency strictly between 0 and 1 after thinning.
C11_Witness ==
  /\ pc = "done" /\ cap >= 1
  /\ DOMAIN rel_freq = Tokens
  /\ \E w \in Tokens : rel_freq[w][1] = cap /\ rel_freq[w][2] > cap + 1

\* C13: a decision for a token whose counter is at the cap either rejects,
\* changing neither the counter nor the lists, or decrements and then
\* accepts, which leaves the counter at the cap and appends one element to
\* each list; the other tokens' counters never change.
C13_AtCapStep ==
  (cap >= 1 /\ pc = "while") =>
    LET t == CurrentToken
        others == \A o \in Tokens \ { t } : CounterGet(freq', o) = CounterGet(freq, o)
    IN /\ (draws = 0 /\ CounterGet(freq, t) = cap) =>
            \/ /\ pc' = "occ"
               /\ freq' = freq
               /\ clients_triehh' = clients_triehh
               /\ clients_sfp' = clients_sfp
            \/ /\ pc' = "while" /\ draws' = 1
               /\ CounterGet(freq', t) = cap - 1
               /\ others
               /\ clients_triehh' = clients_triehh
               /\ clients_sfp' = clients_sfp
       /\ draws = 1 =>
            /\ pc' = "occ"
            /\ CounterGet(freq, t) = cap - 1
            /\ CounterGet(freq', t) = cap
            /\ others
            /\ clients_triehh' = Append(clients_triehh, t \o << "$" >>)
            /\ clients_sfp' = Append(clients_sfp, FixedWidthOf(t, max_len))

C14_BelowCapStep ==
  (cap >= 1 /\ pc = "while" /\ draws = 0 /\ CounterGet(freq, CurrentToken) < cap) =>
    /\ pc' = "occ"
    /\ draws' = 0
    /\ CounterGet(freq', CurrentToken) = CounterGet(freq, CurrentToken) + 1
    /\ clients_triehh' = Append(clients_triehh, CurrentToken \o << "$" >>)
    /\ clients_sfp' = Append(clients_sfp, FixedWidthOf(CurrentToken, max_len))

C14_BelowCapFinal ==
  (cap >= 1 /\ PassOver) =>
    \A t \in Tokens :
      cum[t] < cap =>
        /\ CounterGet(freq, t) = cum[t]
        /\ EntriesOf(clients_triehh, t \o << "$" >>) = cum[t]
        /\ EntriesOf(clients_sfp, FixedWidthOf(t, max_len)) = cum[t]

C14_BelowCapCertain == [][C14_BelowCapStep]_vars /\ []C14_BelowCapFinal

\* C14 witness: one token stayed below the cap and has all its occurrences,
\* while the other went over the cap.
C14_Witness ==
  /\ cap >= 2 /\ pc = "done"
  /\ \E t, o \in Tokens :
       /\ cum[t] >= 1 /\ cum[t] < cap
       /\ EntriesOf(clients_triehh, t \o << "$" >>) = cum[t]
       /\ cum[o] > cap

\* Occurrence decisions completed so far for token t.
DecisionsMade(t) ==
  cumc[t] - (IF pc \in { "occ", "while" } /\ CurrentToken = t THEN todo ELSE 0)

\* C15: with a cap k >= 1, between decisions the counter of a token is
\* min(n, k) after n decisions for it, whatever the draws were; after the
\* pass it is min(cumulative count, k).
C15_CounterIsMin ==
  cap >= 1 =>
    /\ BetweenDecisions =>
         \A t \in Tokens : CounterGet(freq, t) = Min(DecisionsMade(t), cap)
    /\ PassOver =>
         \A t \in Tokens : CounterGet(freq, t) = Min(cum[t], cap)

\* C15 witness: the pass is over, a token's cumulative count is above the
\* cap, draws went both ways, and its counter is the cap.
C15_Witness ==
  /\ cap >= 1 /\ pc = "finish"
  /\ \E t \in Tokens :
       /\ cum[t] > cap + 1
       /\ CounterGet(freq, t) = cap
       /\ EntriesOf(clients_triehh, t \o << "$" >>) > cap
       /\ EntriesOf(clients_triehh, t \o << "$" >>) < cumc[t]

\* s is an initial segment of t.
IsPrefixOf(s, t) == Len(s) <= Len(t) /\ \A j \in 1..Len(s) : s[j] = t[j]

\* C16: both lists are append-only, and a token has more entries than the
\* cap only after its occurrences arrived over several rows with more than
\* cap decisions, its counter being the cap.
C16_AppendOnlyStep ==
  /\ IsPrefixOf(clients_triehh, clients_triehh')
  /\ IsPrefixOf(clients_sfp, clients_sfp')

C16_OverCap ==
  (cap >= 1 /\ BetweenDecisions) =>
    \A t \in Tokens :
      EntriesOf(clients_triehh, t \o << "$" >>) > cap =>
        /\ CounterGet(freq, t) = cap
        /\ cumc[t] > cap
        /\ i >= 2

RowSteps == 3 * MaxCount + 2

\* A bound on the steps the pass can still take.
Rank ==
  CASE pc = "read" -> RowSteps * (MaxRows - i) + 5
    [] pc = "occ" -> RowSteps * (MaxRows - i) + 5 + 3 * todo + 1
    [] pc = "while" -> RowSteps * (MaxRows - i) + 5 + 3 * todo - draws
    [] pc = "finish" -> 4
    [] pc = "write_triehh" -> 3
    [] pc = "write_sfp" -> 2
    [] pc = "write_freq" -> 1
    [] OTHER -> 0

\* C18: a reservoir_extend call is entered with k >= 1 and a counter in
\* 0..k, makes at most one draw and at most one decrement, and no counter
\* becomes negative; every step of the pass lowers a bound on the steps
\* left, so the pass ends on any finite input.
C18_CallState ==
  /\ Rank >= 0
  /\ draws <= 1
  /\ \A t \in DOMAIN freq : freq[t] >= 0
  /\ pc = "while" =>
       /\ cap >= 1
       /\ CounterGet(freq, CurrentToken) <= cap
       /\ draws = 1 => CounterGet(freq, CurrentToken) = cap - 1

C18_CallStep ==
  /\ Rank' < Rank
  /\ (\E t \in Tokens : CounterGet(freq', t) < CounterGet(freq, t)) =>
       (pc = "while" /\ draws = 0 /\ draws' = 1)
  /\ draws' > draws => (pc = "while" /\ draws = 0)

C18_Terminates == [][C18_CallStep]_vars /\ []C18_CallState

\* C18 witness: a run over MaxRows rows completed after a call that drew
\* once, decremented and accepted.
C18_Witness ==
  /\ pc = "done" /\ i = MaxRows /\ draws = 1
  /\ cap >= 1
  /\ Len(clients_triehh) > CounterTotal(freq)

\* C12: for every string s and width L >= 1, truncate_or_pad gives exactly L
\* characters, the first L of s when s has at least L, else s followed by
\* '$' up to L; add_end_symbol gives s followed by one '$'.
C12_Encodings ==
  pc = "encode" =>
    LET s == row[2]
        L == max_len
    IN /\ clients_triehh # << >> =>
            LET a == clients_triehh[1]
            IN /\ Len(a) = Len(s) + 1
               /\ \A j \in 1..Len(s) : a[j] = s[j]
               /\ a[Len(s) + 1] = "$"
       /\ clients_sfp # << >> =>
            LET b == clients_sfp[1]
            IN /\ Len(b) = L
               /\ Len(s) >= L => \A j \in 1..L : b[j] = s[j]
               /\ Len(s) < L =>
                    /\ \A j \in 1..Len(s) : b[j] = s[j]
                    /\ \A j \in (Len(s) + 1)..L : b[j] = "$"

\* C12 witness: both encoders were applied to a string shorter than the
\* width, which was padded.
C12_Witness ==
  /\ pc = "encode"
  /\ Len(row[2]) = 1 /\ max_len = 2
  /\ clients_triehh # << >>
  /\ clients_sfp = << << row[2][1], "$" >> >>

====
